---------------------------- MODULE Spec2Model ----------------------------
(***************************************************************************)
(* Natural language -> SQL -> Tinybird pipeline.                           *)
(*                                                                         *)
(* Two deployments are modelled: the modular one (routes.py,               *)
(* sql_generator.py, tinybird_client.py), whose generator reads the        *)
(* candidate from a grammar-constrained tool call, and the single-file one *)
(* (main.py), whose generator reads the candidate from chat text.          *)
(*                                                                         *)
(* Texts are sequences of tokens.  A token is a chunk of characters that   *)
(* the string operations of the code treat as a unit: a whitespace run,    *)
(* a semicolon, a keyword, the directive "FORMAT JSON" (in either case), a *)
(* bare "FORMAT" (as in FORMAT CSV), a code fence, a language tag, a       *)
(* quote.  No concatenation of tokens forms "FORMAT JSON" or "FORMAT"      *)
(* across a token boundary, so the substring tests of the code are tests   *)
(* on single tokens.                                                       *)
(***************************************************************************)
EXTENDS Naturals, Sequences, FiniteSets

\* Longest text the backends return, in tokens.
MaxLen == 3

WS == " "
SEMI == ";"
DIRECTIVE == "FORMAT JSON"
\* The code fence: three backquotes.
FENCE == "<fence>"

\* A single quote, opening or closing a string literal.
QUOTE == "<quote>"

Whitespace == {WS}

Alphabet ==
  {"SELECT", "WITH", "DROP", WS, SEMI, QUOTE, DIRECTIVE, "format json",
   "FORMAT", FENCE, "sql"}

RECURSIVE TextsOfLen(_)
TextsOfLen(n) ==
  IF n = 0 THEN {<<>>}
  ELSE {Append(t, a) : t \in TextsOfLen(n - 1), a \in Alphabet}

Texts == UNION {TextsOfLen(n) : n \in 0..MaxLen}

-----------------------------------------------------------------------------
(* Python string operations, on token sequences. *)

\* str.lstrip(chars): drop the leading tokens that are in chars.
RECURSIVE LStripSet(_, _)
LStripSet(s, chars) ==
  IF s # <<>> /\ Head(s) \in chars THEN LStripSet(Tail(s), chars) ELSE s

\* str.rstrip(chars): drop the trailing tokens that are in chars.
RECURSIVE RStripSet(_, _)
RStripSet(s, chars) ==
  IF s # <<>> /\ s[Len(s)] \in chars
  THEN RStripSet(SubSeq(s, 1, Len(s) - 1), chars)
  ELSE s

\* str.strip()
Strip(s) == RStripSet(LStripSet(s, Whitespace), Whitespace)

\* str.rstrip()
RStrip(s) == RStripSet(s, Whitespace)

\* str.rstrip(';')
RStripSemi(s) == RStripSet(s, {SEMI})

\* str.upper(), token by token: the only tokens with lower-case letters are
\* the lower-case directive and the language tag.
UpperTok(a) ==
  IF a = "format json" THEN DIRECTIVE
  ELSE IF a = "sql" THEN "SQL"
  ELSE a

Upper(s) == [i \in 1..Len(s) |-> UpperTok(s[i])]

\* "FORMAT JSON" in s
ContainsFormatJson(s) == \E i \in 1..Len(s) : s[i] = DIRECTIVE

\* "FORMAT" in s: true of the bare FORMAT and of the directive.
ContainsFormat(s) == \E i \in 1..Len(s) : s[i] \in {"FORMAT", DIRECTIVE}


-----------------------------------------------------------------------------
(* Values *)

\* Python's None, where the code may hold None in place of a text.
None == <<"<None>">>

\* 200, the one status execute_query takes for a success.
HTTP_OK == 200

\* Statuses the execution backend answers with.
Statuses == {200, 204, 404, 500}

\* f"{response.status_code}"
StatusText(st) ==
  CASE st = 200 -> "200"
    [] st = 204 -> "204"
    [] st = 404 -> "404"
    [] st = 500 -> "500"

\* Bodies the execution backend answers with: the raw text, whether it is
\* JSON, and the keys of the JSON object.
Bodies ==
  { [text |-> "{data, rows}", json |-> TRUE,  keys |-> {"data", "rows"}],
    [text |-> "{rows}",       json |-> TRUE,  keys |-> {"rows"}],
    [text |-> "{data}",       json |-> TRUE,  keys |-> {"data"}],
    [text |-> "not json",     json |-> FALSE, keys |-> {}] }

\* What requests.post gives: an exception (the backend is unreachable), or a
\* response with a status and a body.
ExecResponses ==
  { [raised |-> TRUE, status |-> 0, body |-> [text |-> "", json |-> FALSE, keys |-> {}]] }
  \cup
  { [raised |-> FALSE, status |-> st, body |-> b] : st \in Statuses, b \in Bodies }

\* An item of response.output: a tool call carries the attribute 'input',
\* a reasoning or message item does not.
ToolCall(t) == [tool |-> TRUE, input |-> t]
Message == [tool |-> FALSE, input |-> None]

\* What OPENAI_CLIENT.responses.create gives: an exception, or a response
\* whose output is a list of items.
ConstrainedResponses ==
  { [raised |-> TRUE, output |-> <<>>, content |-> None] }
  \cup
  { [raised |-> FALSE, output |-> o, content |-> None] :
      o \in {<<>>, <<Message>>} \cup {<<ToolCall(t)>> : t \in Texts}
            \cup {<<Message, ToolCall(t)>> : t \in Texts} }

\* What OPENAI_CLIENT.chat.completions.create gives: an exception, or a
\* message whose content is a text or None.
FreeformResponses ==
  { [raised |-> TRUE, output |-> <<>>, content |-> None] }
  \cup
  { [raised |-> FALSE, output |-> <<>>, content |-> c] : c \in Texts \cup {None} }

Modes == {"constrained", "freeform"}

GenResponses(m) ==
  IF m = "constrained" THEN ConstrainedResponses ELSE FreeformResponses

\* The result of a function that returns a value or raises.
Ok(v) == [ok |-> TRUE, value |-> v, error |-> <<>>]
Raise(e) == [ok |-> FALSE, value |-> None, error |-> e]

-----------------------------------------------------------------------------
(* The generators *)

\* A variant that appends the directive without looking for one.
AppendFormatJson(s) == RStripSemi(RStrip(s)) \o <<WS, DIRECTIVE>>

\* if "FORMAT JSON" not in sql_query.upper():
\*     sql_query = sql_query.rstrip().rstrip(';') + " FORMAT JSON"
EnsureFormatJson(s) ==
  IF ~ContainsFormatJson(Upper(s))
  THEN RStripSemi(RStrip(s)) \o <<WS, DIRECTIVE>>
  ELSE s

\* for item in response.output: if hasattr(item, 'input'): ...; break
RECURSIVE FirstToolInput(_)
FirstToolInput(output) ==
  IF output = <<>> THEN None
  ELSE IF Head(output).tool THEN Head(output).input
  ELSE FirstToolInput(Tail(output))

\* Python's truth of a text or None: None and "" are false.
Truthy(s) == s # None /\ s # <<>>

GenerationErrorPrefix == "Error generating SQL: "

\* except Exception as e: raise Exception(f"Error generating SQL: {str(e)}")
WrapGenerationError(e) == <<GenerationErrorPrefix>> \o e

NoToolCallError ==
  <<"Failed to generate SQL query from OpenAI response - no tool call found">>

ConnectionError == <<"Connection error.">>

NoneStripError == <<"'NoneType' object has no attribute 'strip'">>

\* sql_generator.generate_sql_from_natural_language, from the backend's
\* response on.
GenerateConstrained(resp) ==
  IF resp.raised THEN Raise(WrapGenerationError(ConnectionError))
  ELSE LET sql_query == FirstToolInput(resp.output)
       IN IF ~Truthy(sql_query)
          THEN Raise(WrapGenerationError(NoToolCallError))
          ELSE Ok(EnsureFormatJson(Strip(sql_query)))

\* re.sub(r'^```sql\s*', '', s, flags=re.IGNORECASE)
StripFenceSql(s) ==
  IF Len(s) >= 2 /\ s[1] = FENCE /\ UpperTok(s[2]) = "SQL"
  THEN LStripSet(SubSeq(s, 3, Len(s)), Whitespace)
  ELSE s

\* re.sub(r'^```\s*', '', s)
StripFenceOpen(s) ==
  IF s # <<>> /\ s[1] = FENCE THEN LStripSet(Tail(s), Whitespace) ELSE s

\* A variant that leaves the closing fence in place.
KeepFenceClose(s) == s

\* re.sub(r'```\s*$', '', s): the fence that only whitespace follows.
StripFenceClose(s) ==
  LET r == RStrip(s)
  IN IF r # <<>> /\ r[Len(r)] = FENCE THEN SubSeq(r, 1, Len(r) - 1) ELSE s

\* The candidate main.py has after its second strip(), before it looks for
\* the directive.
FreeformCandidate(content) ==
  Strip(StripFenceClose(StripFenceOpen(StripFenceSql(Strip(content)))))

\* main.generate_sql_from_natural_language, from the backend's response on.
GenerateFreeform(resp) ==
  IF resp.raised THEN Raise(WrapGenerationError(ConnectionError))
  ELSE IF resp.content = None THEN Raise(WrapGenerationError(NoneStripError))
  ELSE Ok(EnsureFormatJson(FreeformCandidate(resp.content)))

Generate(m, resp) ==
  IF m = "constrained" THEN GenerateConstrained(resp) ELSE GenerateFreeform(resp)

-----------------------------------------------------------------------------
(* The executor *)

\* query = query.strip()
\* if "FORMAT" not in query.upper():
\*     query = query.rstrip().rstrip(';') + " FORMAT JSON"
ExecuteNormalize(query) ==
  LET q == Strip(query)
  IN IF ~ContainsFormat(Upper(q))
     THEN RStripSemi(RStrip(q)) \o <<WS, DIRECTIVE>>
     ELSE q

\* A variant that takes every 2xx status for a success.
StatusIsFailureNot2xx(st) == st \notin 200..299

\* if response.status_code != 200: raise ...
StatusIsFailure(st) == st # HTTP_OK

\* A variant that drops the backend's body from the message.
TinybirdErrorNoBody(st, text) ==
  <<"Tinybird API error: ", StatusText(st), ", ", "">>

\* f"Tinybird API error: {response.status_code}, {response.text}"
TinybirdError(st, text) ==
  <<"Tinybird API error: ", StatusText(st), ", ", text>>

JsonDecodeError == <<"Expecting value: line 1 column 1 (char 0)">>

\* response.json(): the parsed object, here its keys.
ParseJson(body) == [keys |-> body.keys]

\* A variant that turns a failure into an empty result.
ExecuteResultDefaulting(r) ==
  IF r.raised \/ StatusIsFailure(r.status) \/ ~r.body.json
  THEN Ok([keys |-> {}])
  ELSE Ok(ParseJson(r.body))

\* execute_query, from the backend's response on.
ExecuteResult(r) ==
  IF r.raised THEN Raise(ConnectionError)
  ELSE IF StatusIsFailure(r.status) THEN Raise(TinybirdError(r.status, r.body.text))
  ELSE IF ~r.body.json THEN Raise(JsonDecodeError)
  ELSE Ok(ParseJson(r.body))

-----------------------------------------------------------------------------
(* The grammar file *)

\* The text of clickhouse_sql.lark is a sequence of chunks (rules).  Two
\* complete grammar texts are told apart: the one in place and the one a
\* writer replaces it with.
GrammarOld == <<"start: select", "select: SELECT">>
GrammarNew == <<"start: query", "query: SELECT | WITH">>

GrammarTexts == {GrammarOld, GrammarNew}

\* The file does not exist.
Missing == <<"<missing>">>

FileNotFoundError ==
  <<"[Errno 2] No such file or directory: 'clickhouse_sql.lark'">>

\* load_grammar(): open(grammar_path, 'r') raises when the file does not
\* exist; f.read() returns what the file holds at that moment.
LoadGrammar(file) ==
  IF file = Missing THEN Raise(FileNotFoundError) ELSE Ok(file)

-----------------------------------------------------------------------------
(* The route POST /query *)

NoResponse == [pending |-> TRUE]

\* return {"natural_language_query": ..., "generated_sql": ..., "results": ...}
RouteSuccess(q, sql, results) ==
  [natural_language_query |-> q, generated_sql |-> sql, results |-> results]

\* except Exception as e: return {"error": str(e), "natural_language_query": ...}
RouteError(q, e) == [error |-> e, natural_language_query |-> q]

NLQueries == {"How many employees are there?"}

NoExecResponse ==
  [raised |-> FALSE, status |-> 0, body |-> [text |-> "", json |-> FALSE, keys |-> {}]]

NoGenResponse == [raised |-> FALSE, output |-> <<>>, content |-> None]

VARIABLES
  pc,         \* where the request is in natural_language_query
  mode,       \* which deployment serves the request
  nl,         \* request.query
  gen_resp,   \* the generation backend's response
  sql_query,  \* what generate_sql_from_natural_language returned
  posted,     \* the "q" of the body posted to the execution backend
  exec_resp,  \* the execution backend's response
  response,   \* what the route returned to the caller
  genCalls,   \* calls to the generation backend in this request
  execCalls   \* calls to the execution backend in this request

VARIABLES
  grammar_file,  \* what clickhouse_sql.lark holds
  writing,       \* the chunks a writer of the file has still to write
  definition,    \* the grammar text sent to the generation backend
  vgrammar,      \* the grammar text validate_sql_with_grammar read
  verdict,       \* what validate_sql_with_grammar returned
  passed,        \* what the eval test returned
  inner          \* the query the chat text holds between its fences

VARIABLES
  schema_info,   \* sql_generator.SCHEMA_INFO
  tinybird,      \* config.TINYBIRD_HOST and config.TINYBIRD_TOKEN
  reqs           \* the requests being served side by side, each with its own state

VARIABLES
  environ,       \* os.environ: TINYBIRD_HOST and TINYBIRD_TOKEN
  tinyb,         \* what the file .tinyb holds
  loaded,        \* what load_tinybird_config() did when config.py was imported
  run,           \* where run_all_evals is, and what it has recorded
  status         \* what GET /run-evals answered

\* The variables of the configuration loader and of the eval runner.
auxvars == <<environ, tinyb, loaded, run, status>>

\* The module-level state and the requests served side by side.
sharedvars == <<schema_info, tinybird, reqs, auxvars>>

\* The variables of the eval tests and of the file's writer.
evalvars == <<writing, vgrammar, verdict, passed, inner, sharedvars>>

vars ==
  <<pc, mode, nl, gen_resp, sql_query, posted, exec_resp, response,
    genCalls, execCalls, grammar_file, writing, definition, vgrammar,
    verdict, passed, inner, schema_info, tinybird, reqs,
    environ, tinyb, loaded, run, status>>

\* SCHEMA_INFO = """ Available columns in IBM_HR_Employee_Attrition table: ..."""
SCHEMA_INFO == "Available columns in IBM_HR_Employee_Attrition table: ..."

-----------------------------------------------------------------------------
(* The configuration loader (config.py) *)

\* Python's None where the code may hold None in place of a string.
NoValue == "<None>"

\* not v, for a string or None.
Falsy(v) == v \in {NoValue, ""}

\* a or b
PyOr(a, b) == IF Falsy(a) THEN b ELSE a

\* What os.getenv gives for one variable: None when it is unset, else its
\* value, which can be empty.
EnvValues == {NoValue, "", "https://env.tinybird.co"}

Environs == [host : EnvValues, token : {NoValue, "", "p.env"}]

\* The file .tinyb: absent, not JSON, JSON that is no object, or an object
\* whose host and token are missing (None for config.get), empty or set.
Absent == [kind |-> "absent", host |-> NoValue, token |-> NoValue]
NotJson == [kind |-> "not json", host |-> NoValue, token |-> NoValue]
NotObject == [kind |-> "no object", host |-> NoValue, token |-> NoValue]

TinybFiles ==
  {Absent, NotJson, NotObject}
  \cup [kind : {"object"}, host : {NoValue, "", "https://file.tinybird.co"},
        token : {NoValue, "", "p.file"}]

ConfigNotFound ==
  "Tinybird configuration not found. Set TINYBIRD_HOST and TINYBIRD_TOKEN environment variables, or ensure .tinyb file exists."

JsonLoadError == "Expecting value: line 1 column 1 (char 0)"

AttributeError == "'list' object has no attribute 'get'"

Returned(h, t, o) == [ok |-> TRUE, host |-> h, token |-> t, error |-> "", opened |-> o]

Raised(e, o) == [ok |-> FALSE, host |-> NoValue, token |-> NoValue, error |-> e, opened |-> o]

\* A variant that returns whatever it has after the fallback.
LoadTinybirdConfigPartial(env, file) ==
  IF ~Falsy(env.host) /\ ~Falsy(env.token) THEN Returned(env.host, env.token, FALSE)
  ELSE IF file.kind = "absent" THEN Returned(env.host, env.token, TRUE)
  ELSE IF file.kind = "not json" THEN Raised(JsonLoadError, TRUE)
  ELSE IF file.kind = "no object" THEN Raised(AttributeError, TRUE)
  ELSE Returned(PyOr(env.host, file.host), PyOr(env.token, file.token), TRUE)

\* load_tinybird_config(), with the environment and the file as they are at
\* the call; opened tells whether open('.tinyb') was called.
LoadTinybirdConfig(env, file) ==
  IF ~(Falsy(env.host) \/ Falsy(env.token))
  THEN Returned(env.host, env.token, FALSE)
  ELSE IF file.kind = "absent" THEN Raised(ConfigNotFound, TRUE)
  ELSE IF file.kind = "not json" THEN Raised(JsonLoadError, TRUE)
  ELSE IF file.kind = "no object" THEN Raised(AttributeError, TRUE)
  ELSE LET host == PyOr(env.host, file.host)
           token == PyOr(env.token, file.token)
       IN IF Falsy(host) \/ Falsy(token) THEN Raised(ConfigNotFound, TRUE)
          ELSE Returned(host, token, TRUE)

\* Before config.py is imported.
NotLoaded == [ok |-> FALSE, host |-> NoValue, token |-> NoValue,
              error |-> "<not loaded>", opened |-> FALSE]

Unassigned == [host |-> NoValue, token |-> NoValue]

\* The environment of the deployment the requests run in.
DeployedEnviron == [host |-> "https://env.tinybird.co", token |-> "p.env"]

\* TINYBIRD_HOST, TINYBIRD_TOKEN = load_tinybird_config(), in that deployment.
TinybirdConfig ==
  [host |-> LoadTinybirdConfig(DeployedEnviron, Absent).host,
   token |-> LoadTinybirdConfig(DeployedEnviron, Absent).token]

\* Before run_all_evals is called.
NoRun == [pc |-> "idle", all_results |-> <<>>, outcomes |-> <<>>, returned |-> FALSE]

\* The loader and the runner at rest, config.py imported.
AuxInit ==
  /\ environ = DeployedEnviron
  /\ tinyb = Absent
  /\ loaded = LoadTinybirdConfig(DeployedEnviron, Absent)
  /\ run = NoRun
  /\ status = "<none>"

\* The requests that can be in flight at the same time.
Requests == {"a", "b"}

\* A request slot before a request arrives in it.
NoRequest ==
  [pc |-> "idle", nl |-> "", definition |-> None, prompt |-> <<>>,
   gen_resp |-> NoGenResponse, sql_query |-> None, url |-> <<>>,
   auth |-> <<>>, posted |-> None, exec_resp |-> NoExecResponse,
   response |-> NoResponse]

\* The module-level state after the modules are imported, no request yet.
SharedInit ==
  /\ schema_info = SCHEMA_INFO
  /\ tinybird = TinybirdConfig
  /\ reqs = [r \in Requests |-> NoRequest]
  /\ AuxInit

NoVerdict == [pending |-> TRUE]

Init ==
  /\ pc = "idle"
  /\ mode = "constrained"
  /\ nl = "How many employees are there?"
  /\ gen_resp = NoGenResponse
  /\ sql_query = None
  /\ posted = None
  /\ exec_resp = NoExecResponse
  /\ response = NoResponse
  /\ genCalls = 0
  /\ execCalls = 0
  /\ SharedInit
  /\ grammar_file \in {Missing, GrammarOld}
  /\ writing = <<>>
  /\ definition = None
  /\ vgrammar = None
  /\ verdict = NoVerdict
  /\ passed = "pending"
  /\ inner = None

\* A request arrives at POST /query.
Receive ==
  /\ pc \in {"idle", "done"}
  /\ \E m \in Modes, q \in NLQueries :
       /\ mode' = m
       /\ nl' = q
  /\ pc' = "generating"
  /\ gen_resp' = NoGenResponse
  /\ sql_query' = None
  /\ posted' = None
  /\ exec_resp' = NoExecResponse
  /\ response' = NoResponse
  /\ genCalls' = 0
  /\ execCalls' = 0
  /\ definition' = None
  /\ UNCHANGED <<grammar_file, evalvars>>

\* generate_sql_from_natural_language builds the prompt, reads the grammar
\* file and calls the generation backend with the grammar as the tool's
\* format (main.py sends no grammar).
CallGenerationBackend ==
  /\ pc = "generating"
  /\ mode = "constrained" => LoadGrammar(grammar_file).ok
  /\ definition' = IF mode = "constrained" THEN LoadGrammar(grammar_file).value
                   ELSE None
  /\ pc' = "gen_wait"
  /\ genCalls' = genCalls + 1
  /\ UNCHANGED <<mode, nl, gen_resp, sql_query, posted, exec_resp, response,
                 execCalls, grammar_file, evalvars>>

\* load_grammar() raises inside the generator's try: the generator raises
\* the wrapped error before any call to the backend, and the route's except
\* clause answers the caller.
GrammarLoadFails ==
  /\ pc = "generating"
  /\ mode = "constrained"
  /\ ~LoadGrammar(grammar_file).ok
  /\ response' = RouteError(nl, WrapGenerationError(LoadGrammar(grammar_file).error))
  /\ pc' = "done"
  /\ UNCHANGED <<mode, nl, gen_resp, sql_query, posted, exec_resp, genCalls,
                 execCalls, grammar_file, definition, evalvars>>

\* A variant that goes on with an empty query when generation fails.
GenerationReturnsDefaulting ==
  /\ pc = "gen_wait"
  /\ \E resp \in GenResponses(mode) :
       LET g == Generate(mode, resp)
       IN /\ gen_resp' = resp
          /\ sql_query' = IF g.ok THEN g.value ELSE <<>>
  /\ pc' = "generated"
  /\ UNCHANGED <<mode, nl, posted, exec_resp, response, genCalls, execCalls,
                 grammar_file, definition, evalvars>>

\* The generation call returns or raises, with a response out of S; the
\* generator extracts and normalizes the candidate, or raises, and then the
\* route's except clause answers the caller.
GenerationReturnsFrom(S) ==
  /\ pc = "gen_wait"
  /\ \E resp \in S :
       LET g == Generate(mode, resp)
       IN /\ gen_resp' = resp
          /\ IF g.ok
             THEN /\ sql_query' = g.value
                  /\ pc' = "generated"
                  /\ response' = response
             ELSE /\ sql_query' = sql_query
                  /\ pc' = "done"
                  /\ response' = RouteError(nl, g.error)
  /\ UNCHANGED <<mode, nl, posted, exec_resp, genCalls, execCalls,
                 grammar_file, definition, evalvars>>

GenerationReturns == GenerationReturnsFrom(GenResponses(mode))

\* execute_query(sql_query): normalizes the query and posts it.
PostQuery ==
  /\ pc = "generated"
  /\ posted' = ExecuteNormalize(sql_query)
  /\ execCalls' = execCalls + 1
  /\ pc' = "exec_wait"
  /\ UNCHANGED <<mode, nl, gen_resp, sql_query, exec_resp, response, genCalls,
                 grammar_file, definition, evalvars>>

\* A variant that posts the query again after a failed call.
ExecutionReturnsRetrying ==
  /\ pc = "exec_wait"
  /\ \E r \in ExecResponses :
       LET x == ExecuteResult(r)
       IN /\ exec_resp' = r
          /\ IF x.ok
             THEN /\ response' = RouteSuccess(nl, sql_query, x.value)
                  /\ pc' = "done"
             ELSE IF execCalls < 2
             THEN /\ response' = response
                  /\ pc' = "generated"
             ELSE /\ response' = RouteError(nl, x.error)
                  /\ pc' = "done"
  /\ UNCHANGED <<mode, nl, gen_resp, sql_query, posted, genCalls, execCalls,
                 grammar_file, definition, evalvars>>

\* The execution call returns or raises; execute_query returns the parsed
\* body or raises, and the route answers the caller.
ExecutionReturns ==
  /\ pc = "exec_wait"
  /\ \E r \in ExecResponses :
       LET x == ExecuteResult(r)
       IN /\ exec_resp' = r
          /\ response' = IF x.ok THEN RouteSuccess(nl, sql_query, x.value)
                         ELSE RouteError(nl, x.error)
  /\ pc' = "done"
  /\ UNCHANGED <<mode, nl, gen_resp, sql_query, posted, genCalls, execCalls,
                 grammar_file, definition, evalvars>>

Next ==
  \/ Receive
  \/ CallGenerationBackend
  \/ GrammarLoadFails
  \/ GenerationReturns
  \/ PostQuery
  \/ ExecutionReturns

Spec == Init /\ [][Next]_vars


-----------------------------------------------------------------------------
(* The grammar and the normalizer's read-only rule, as the specification   *)
(* describes them.                                                         *)

\* The statement forms the Safety Normalizer lets through: a SELECT, or a
\* WITH-introduced chain.
ReadOnlyLead(s) == s # None /\ s # <<>> /\ s[1] \in {"SELECT", "WITH"}

\* The grammar's language, at the grain of the tokens: a read-only leading
\* keyword, a body without statement separators, fences or other
\* statements, and the mandatory trailing output-format directive.
GrammarAccepts(s) ==
  /\ s # None
  /\ Len(s) >= 2
  /\ s[1] \in {"SELECT", "WITH"}
  /\ s[Len(s)] = DIRECTIVE
  /\ \A i \in 2..(Len(s) - 1) : s[i] \in {WS, QUOTE, "SELECT"}

\* A grammar text the parser library can build a parser from: a complete
\* grammar.  An empty text, a part of a grammar or a mixture of two is not.
WellFormed(g) == g \in GrammarTexts

\* The leading keywords a grammar text allows: the old grammar has no
\* WITH chains.
Heads(g) == IF g = GrammarOld THEN {"SELECT"} ELSE {"SELECT", "WITH"}

\* s is derivable from the root of the grammar g.
Derivable(g, s) == WellFormed(g) /\ GrammarAccepts(s) /\ s[1] \in Heads(g)

\* The positions of s at which no derivation of g can go on.
Offending(g, s) ==
  {i \in 1..Len(s) :
     \/ i = 1 /\ s[1] \notin Heads(g)
     \/ i > 1 /\ (s[i - 1] = DIRECTIVE \/ s[i] \notin {WS, QUOTE, "SELECT", DIRECTIVE})}

PosText(i) == <<"1", "2", "3", "4", "5", "6", "7", "8", "9">>[i]

PositionTexts == {PosText(i) : i \in 1..9}

\* The parser's error for a text that is not derivable: at a token of the
\* input it names the position; at the end of the input it names none.
LarkParseError(g, s) ==
  IF Offending(g, s) = {}
  THEN <<"Unexpected end-of-input. Expected one of: ...">>
  ELSE <<"No terminal matches the input in the current parser context, at col ",
         PosText(CHOOSE i \in Offending(g, s) : \A j \in Offending(g, s) : i <= j)>>

\* The grammar builder's error for a text that is no grammar.
LarkGrammarError == <<"Using an undefined rule: start">>

\* A diagnostic names a position of the input.
NamesPosition(diag) == \E i \in 1..Len(diag) : diag[i] \in PositionTexts

-----------------------------------------------------------------------------
(* The validator and the eval tests (evals.py) *)

\* A variant that accepts when the grammar cannot be loaded or built.
ValidateAcceptingOnGrammarError(file, sql) ==
  LET l == LoadGrammar(file)
  IN IF ~l.ok \/ ~WellFormed(l.value) THEN [valid |-> TRUE, error |-> <<>>]
     ELSE IF ~Derivable(l.value, sql)
     THEN [valid |-> FALSE, error |-> LarkParseError(l.value, sql)]
     ELSE [valid |-> TRUE, error |-> <<>>]

\* A variant that drops the exception's message.
ValidateWithoutDiagnostic(file, sql) ==
  LET l == LoadGrammar(file)
  IN IF l.ok /\ Derivable(l.value, sql) THEN [valid |-> TRUE, error |-> <<>>]
     ELSE [valid |-> FALSE, error |-> <<>>]

\* validate_sql_with_grammar(sql), with the file as it is at the call:
\* (True, "") when load_grammar, Lark(grammar_text) and parser.parse(sql)
\* all return, (False, str(e)) when one of them raises.
ValidateSqlWithGrammar(file, sql) ==
  LET l == LoadGrammar(file)
  IN IF ~l.ok THEN [valid |-> FALSE, error |-> l.error]
     ELSE IF ~WellFormed(l.value) THEN [valid |-> FALSE, error |-> LarkGrammarError]
     ELSE IF ~Derivable(l.value, sql)
     THEN [valid |-> FALSE, error |-> LarkParseError(l.value, sql)]
     ELSE [valid |-> TRUE, error |-> <<>>]

\* What the file can hold: nothing (it is missing), a complete grammar, or
\* the first chunks of one.
FileStates ==
  {Missing}
  \cup {SubSeq(g, 1, n) : g \in GrammarTexts, n \in 0..2}

\* The tool inputs the generation backend answers the eval tests with.
EvalTexts ==
  { <<"SELECT", WS, DIRECTIVE>>,
    <<"WITH", WS, DIRECTIVE>>,
    <<"DROP", WS, DIRECTIVE>>,
    <<"SELECT", DIRECTIVE, SEMI>>,
    <<"SELECT", DIRECTIVE>>,
    <<"WITH", QUOTE, DIRECTIVE>>,
    <<"SELECT">>,
    <<WS>> }

EvalGenResponses ==
  { [raised |-> TRUE, output |-> <<>>, content |-> None],
    [raised |-> FALSE, output |-> <<Message>>, content |-> None] }
  \cup
  { [raised |-> FALSE, output |-> <<Message, ToolCall(t)>>, content |-> None] :
      t \in EvalTexts }

EvalInit ==
  /\ pc = "t_idle"
  /\ mode = "constrained"
  /\ nl = "How many employees are there?"
  /\ gen_resp = NoGenResponse
  /\ sql_query = None
  /\ posted = None
  /\ exec_resp = NoExecResponse
  /\ response = NoResponse
  /\ genCalls = 0
  /\ execCalls = 0
  /\ SharedInit
  /\ grammar_file \in FileStates
  /\ writing = <<>>
  /\ definition = None
  /\ vgrammar = None
  /\ verdict = NoVerdict
  /\ passed = "pending"
  /\ inner = None

\* The variables an eval test leaves alone.
routevars == <<mode, nl, response, inner, sharedvars>>

\* An eval test starts (query_execution_1_basic_count and the like).
TestStarts ==
  /\ pc \in {"t_idle", "t_done"}
  /\ pc' = "t_generating"
  /\ gen_resp' = NoGenResponse
  /\ sql_query' = None
  /\ posted' = None
  /\ exec_resp' = NoExecResponse
  /\ genCalls' = 0
  /\ execCalls' = 0
  /\ definition' = None
  /\ vgrammar' = None
  /\ verdict' = NoVerdict
  /\ passed' = "pending"
  /\ UNCHANGED <<routevars, grammar_file, writing>>

\* The generator reads the grammar file and calls the backend with what it
\* read as the tool's format.
TestCallsGenerationBackend ==
  /\ pc = "t_generating"
  /\ LoadGrammar(grammar_file).ok
  /\ definition' = LoadGrammar(grammar_file).value
  /\ genCalls' = genCalls + 1
  /\ pc' = "t_gen_wait"
  /\ UNCHANGED <<routevars, gen_resp, sql_query, posted, exec_resp, execCalls,
                 grammar_file, writing, vgrammar, verdict, passed>>

\* load_grammar() raises: the generator raises, the test's except clause
\* returns False.
TestGrammarLoadFails ==
  /\ pc = "t_generating"
  /\ ~LoadGrammar(grammar_file).ok
  /\ passed' = "False"
  /\ pc' = "t_done"
  /\ UNCHANGED <<routevars, gen_resp, sql_query, posted, exec_resp, genCalls,
                 execCalls, grammar_file, writing, definition, vgrammar, verdict>>

\* The generation call returns or raises; the generator returns the
\* normalized candidate, or raises and the test returns False.
TestGenerationReturns ==
  /\ pc = "t_gen_wait"
  /\ \E resp \in EvalGenResponses :
       LET g == GenerateConstrained(resp)
       IN /\ gen_resp' = resp
          /\ IF g.ok
             THEN /\ sql_query' = g.value
                  /\ pc' = "t_generated"
                  /\ passed' = passed
             ELSE /\ sql_query' = sql_query
                  /\ pc' = "t_done"
                  /\ passed' = "False"
  /\ UNCHANGED <<routevars, posted, exec_resp, genCalls, execCalls,
                 grammar_file, writing, definition, vgrammar, verdict>>

\* is_valid, error = validate_sql_with_grammar(sql); assert is_valid
TestValidates ==
  /\ pc = "t_generated"
  /\ LET v == ValidateSqlWithGrammar(grammar_file, sql_query)
     IN /\ verdict' = v
        /\ vgrammar' = LoadGrammar(grammar_file).value
        /\ IF v.valid
           THEN pc' = "t_valid" /\ passed' = passed
           ELSE pc' = "t_done" /\ passed' = "False"
  /\ UNCHANGED <<routevars, gen_resp, sql_query, posted, exec_resp, genCalls,
                 execCalls, grammar_file, writing, definition>>

\* results = execute_query(sql): normalizes the query and posts it.
TestPostsQuery ==
  /\ pc = "t_valid"
  /\ posted' = ExecuteNormalize(sql_query)
  /\ execCalls' = execCalls + 1
  /\ pc' = "t_exec_wait"
  /\ UNCHANGED <<routevars, gen_resp, sql_query, exec_resp, genCalls,
                 grammar_file, writing, definition, vgrammar, verdict, passed>>

\* The execution call returns or raises; the test asserts that the result
\* has the fields data and rows, and returns.
TestExecutionReturns ==
  /\ pc = "t_exec_wait"
  /\ \E r \in ExecResponses :
       LET x == ExecuteResult(r)
       IN /\ exec_resp' = r
          /\ passed' = IF x.ok /\ {"data", "rows"} \subseteq x.value.keys
                       THEN "True" ELSE "False"
  /\ pc' = "t_done"
  /\ UNCHANGED <<routevars, gen_resp, sql_query, posted, genCalls, execCalls,
                 grammar_file, writing, definition, vgrammar, verdict>>

\* The variables of a test, which the file's writer leaves alone.
testvars ==
  <<pc, gen_resp, sql_query, posted, exec_resp, genCalls, execCalls,
    definition, vgrammar, verdict, passed>>

\* A writer opens the file for writing: the file is created or truncated.
WriterOpens ==
  /\ writing = <<>>
  /\ \E g \in GrammarTexts :
       /\ g # grammar_file
       /\ writing' = g
  /\ grammar_file' = <<>>
  /\ UNCHANGED <<routevars, testvars>>

\* The writer writes the next chunk of the new text.
WriterWrites ==
  /\ writing # <<>>
  /\ grammar_file' = Append(grammar_file, Head(writing))
  /\ writing' = Tail(writing)
  /\ UNCHANGED <<routevars, testvars>>

\* The file is removed.
FileRemoved ==
  /\ writing = <<>>
  /\ grammar_file # Missing
  /\ grammar_file' = Missing
  /\ UNCHANGED <<routevars, testvars, writing>>

EvalNext ==
  \/ TestStarts
  \/ TestCallsGenerationBackend
  \/ TestGrammarLoadFails
  \/ TestGenerationReturns
  \/ TestValidates
  \/ TestPostsQuery
  \/ TestExecutionReturns
  \/ WriterOpens
  \/ WriterWrites
  \/ FileRemoved

\* The eval tests, whatever the grammar file holds at the start.
EvalSpec == EvalInit /\ [][EvalNext]_vars

\* The eval tests with a complete grammar in place at the start.
ReloadInit ==
  /\ EvalInit
  /\ grammar_file = GrammarOld

ReloadSpec == ReloadInit /\ [][EvalNext]_vars

-----------------------------------------------------------------------------
(* Fenced chat text (main.py) *)

\* The longest query inside a fence.
MaxQuery == 2

\* The queries inside a fence: texts with no fence marker that neither
\* start nor end with whitespace.
FenceQueries ==
  {q \in UNION {[1..n -> {"SELECT", WS, SEMI, DIRECTIVE}] : n \in 1..MaxQuery} :
     q[1] # WS /\ q[Len(q)] # WS}

\* An opening fence's language tag, if any.
FenceTags == {<<>>, <<"sql">>, <<"SQL">>, <<"CLICKHOUSE">>}

\* What stands before and after the fence: nothing, whitespace, or text.
Around == {<<>>, <<WS>>, <<"SELECT">>}

Fenced(pre, tag, ws1, q, ws2, post) ==
  pre \o <<FENCE>> \o tag \o ws1 \o q \o ws2 \o <<FENCE>> \o post

\* Every chat text made of the query q wrapped in fence markers.
FencedTexts(q) ==
  {Fenced(pre, tag, ws1, q, ws2, post) :
     pre \in Around, tag \in FenceTags, ws1 \in {<<>>, <<WS>>},
     ws2 \in {<<>>, <<WS>>}, post \in Around}

\* Those with only whitespace around the fence, and no tag or the tag sql.
CleanFencedTexts(q) ==
  {Fenced(pre, tag, ws1, q, ws2, post) :
     pre \in {<<>>, <<WS>>}, tag \in {<<>>, <<"sql">>, <<"SQL">>},
     ws1 \in {<<>>, <<WS>>}, ws2 \in {<<>>, <<WS>>}, post \in {<<>>, <<WS>>}}

FencedResponses(q) ==
  {[raised |-> FALSE, output |-> <<>>, content |-> c] : c \in FencedTexts(q)}

FenceInit ==
  /\ pc = "idle"
  /\ mode = "freeform"
  /\ nl = "How many employees are there?"
  /\ gen_resp = NoGenResponse
  /\ sql_query = None
  /\ posted = None
  /\ exec_resp = NoExecResponse
  /\ response = NoResponse
  /\ genCalls = 0
  /\ execCalls = 0
  /\ SharedInit
  /\ grammar_file = GrammarOld
  /\ writing = <<>>
  /\ definition = None
  /\ vgrammar = None
  /\ verdict = NoVerdict
  /\ passed = "pending"
  /\ inner \in FenceQueries

\* main.py's route receives a request.
FreeformReceive == Receive /\ mode' = "freeform"

\* The chat call returns the query wrapped in fence markers.
FencedGenerationReturns == GenerationReturnsFrom(FencedResponses(inner))

FenceNext ==
  \/ FreeformReceive
  \/ CallGenerationBackend
  \/ FencedGenerationReturns
  \/ PostQuery
  \/ ExecutionReturns

FenceSpec == FenceInit /\ [][FenceNext]_vars

-----------------------------------------------------------------------------
(* Requests served side by side (routes.py, sql_generator.py, tinybird_client.py) *)

\* prompt = f"""Convert the following ... {SCHEMA_INFO} ... {natural_language_query} ..."""
Prompt(schema, q) ==
  <<"Convert the following natural language query into a ClickHouse SQL query",
    schema, "Natural language query: ", q>>

\* url = f"{TINYBIRD_HOST}/v0/sql"
Url(host) == <<host, "/v0/sql">>

\* "Authorization": f"Bearer {TINYBIRD_TOKEN}"
Authorization(token) == <<"Bearer ", token>>

\* The questions of the requests served side by side.
ConcQueries == {"How many employees are there?", "What is the average age?"}

\* The generation backend's answers to them.
ConcGenResponses ==
  { [raised |-> TRUE, output |-> <<>>, content |-> None],
    [raised |-> FALSE, output |-> <<Message>>, content |-> None],
    [raised |-> FALSE, output |-> <<Message, ToolCall(<<"SELECT", WS, DIRECTIVE>>)>>,
     content |-> None],
    [raised |-> FALSE, output |-> <<ToolCall(<<"SELECT">>)>>, content |-> None] }

\* The execution backend's answers to them.
ConcExecResponses ==
  {x \in ExecResponses :
     \/ x.raised
     \/ x.status = 200 /\ x.body.keys = {"data", "rows"}
     \/ x.status = 500 /\ ~x.body.json}

\* The variables of the one-request pipeline and of the eval tests, which
\* the requests served side by side leave alone.
pipevars ==
  <<pc, mode, nl, gen_resp, sql_query, posted, exec_resp, response,
    genCalls, execCalls, definition, vgrammar, verdict, passed, inner>>

ConcInit ==
  /\ EvalInit
  /\ grammar_file \in {Missing, GrammarOld}

\* natural_language_query(request) is entered for request r.
ConcReceive(r) ==
  /\ reqs[r].pc \in {"idle", "done"}
  /\ \E q \in ConcQueries :
       reqs' = [reqs EXCEPT ![r] = [NoRequest EXCEPT !.pc = "generating", !.nl = q]]
  /\ UNCHANGED <<pipevars, auxvars, grammar_file, writing, schema_info, tinybird>>

\* A variant that keeps the question in the schema description for the
\* requests to come.
ConcCallGenerationBackendCaching(r) ==
  /\ reqs[r].pc = "generating"
  /\ LoadGrammar(grammar_file).ok
  /\ schema_info' = schema_info \o reqs[r].nl
  /\ reqs' = [reqs EXCEPT ![r].pc = "gen_wait",
                          ![r].prompt = Prompt(schema_info', reqs[r].nl),
                          ![r].definition = LoadGrammar(grammar_file).value]
  /\ UNCHANGED <<pipevars, auxvars, grammar_file, writing, tinybird>>

\* The generator builds the prompt from SCHEMA_INFO and the question, reads
\* the grammar file and calls the generation backend.
ConcCallGenerationBackend(r) ==
  /\ reqs[r].pc = "generating"
  /\ LoadGrammar(grammar_file).ok
  /\ reqs' = [reqs EXCEPT ![r].pc = "gen_wait",
                          ![r].prompt = Prompt(schema_info, reqs[r].nl),
                          ![r].definition = LoadGrammar(grammar_file).value]
  /\ UNCHANGED <<pipevars, auxvars, grammar_file, writing, schema_info, tinybird>>

\* load_grammar() raises; the route's except clause answers the caller.
ConcGrammarLoadFails(r) ==
  /\ reqs[r].pc = "generating"
  /\ ~LoadGrammar(grammar_file).ok
  /\ reqs' = [reqs EXCEPT
       ![r].pc = "done",
       ![r].prompt = Prompt(schema_info, reqs[r].nl),
       ![r].response =
          RouteError(reqs[r].nl, WrapGenerationError(LoadGrammar(grammar_file).error))]
  /\ UNCHANGED <<pipevars, auxvars, grammar_file, writing, schema_info, tinybird>>

\* The generation call of request r returns or raises.
ConcGenerationReturns(r) ==
  /\ reqs[r].pc = "gen_wait"
  /\ \E resp \in ConcGenResponses :
       LET g == GenerateConstrained(resp)
       IN reqs' = [reqs EXCEPT
            ![r].gen_resp = resp,
            ![r].sql_query = IF g.ok THEN g.value ELSE None,
            ![r].pc = IF g.ok THEN "generated" ELSE "done",
            ![r].response = IF g.ok THEN NoResponse
                            ELSE RouteError(reqs[r].nl, g.error)]
  /\ UNCHANGED <<pipevars, auxvars, grammar_file, writing, schema_info, tinybird>>

\* execute_query(sql_query) for request r: the url and the headers come from
\* TINYBIRD_HOST and TINYBIRD_TOKEN.
ConcPostQuery(r) ==
  /\ reqs[r].pc = "generated"
  /\ reqs' = [reqs EXCEPT
       ![r].pc = "exec_wait",
       ![r].url = Url(tinybird.host),
       ![r].auth = Authorization(tinybird.token),
       ![r].posted = ExecuteNormalize(reqs[r].sql_query)]
  /\ UNCHANGED <<pipevars, auxvars, grammar_file, writing, schema_info, tinybird>>

\* The execution call of request r returns or raises; the route answers.
ConcExecutionReturns(r) ==
  /\ reqs[r].pc = "exec_wait"
  /\ \E resp \in ConcExecResponses :
       LET x == ExecuteResult(resp)
       IN reqs' = [reqs EXCEPT
            ![r].exec_resp = resp,
            ![r].pc = "done",
            ![r].response =
               IF x.ok THEN RouteSuccess(reqs[r].nl, reqs[r].sql_query, x.value)
               ELSE RouteError(reqs[r].nl, x.error)]
  /\ UNCHANGED <<pipevars, auxvars, grammar_file, writing, schema_info, tinybird>>

ConcNext ==
  \/ \E r \in Requests :
       \/ ConcReceive(r)
       \/ ConcCallGenerationBackend(r)
       \/ ConcGrammarLoadFails(r)
       \/ ConcGenerationReturns(r)
       \/ ConcPostQuery(r)
       \/ ConcExecutionReturns(r)
  \/ WriterOpens
  \/ WriterWrites
  \/ FileRemoved

\* The requests of one process, their steps interleaved in every way, while
\* the grammar file changes.
ConcSpec == ConcInit /\ [][ConcNext]_vars

-----------------------------------------------------------------------------
(* Importing config.py *)

\* Every variable the import of config.py and the eval runner leave alone.
servicevars == <<pipevars, grammar_file, writing, schema_info, reqs>>

\* The one-request pipeline at rest.
PipeInit ==
  /\ pc = "idle"
  /\ mode = "constrained"
  /\ nl = "How many employees are there?"
  /\ gen_resp = NoGenResponse
  /\ sql_query = None
  /\ posted = None
  /\ exec_resp = NoExecResponse
  /\ response = NoResponse
  /\ genCalls = 0
  /\ execCalls = 0
  /\ grammar_file = GrammarOld
  /\ writing = <<>>
  /\ definition = None
  /\ vgrammar = None
  /\ verdict = NoVerdict
  /\ passed = "pending"
  /\ inner = None
  /\ schema_info = SCHEMA_INFO
  /\ reqs = [r \in Requests |-> NoRequest]

\* The process starts in some environment, with some .tinyb or none.
ConfigInit ==
  /\ PipeInit
  /\ environ \in Environs
  /\ tinyb \in TinybFiles
  /\ loaded = NotLoaded
  /\ tinybird = Unassigned
  /\ run = NoRun
  /\ status = "<none>"

\* TINYBIRD_HOST, TINYBIRD_TOKEN = load_tinybird_config(): the names are
\* assigned when the call returns, and the import fails when it raises.
ImportConfig ==
  /\ loaded = NotLoaded
  /\ loaded' = LoadTinybirdConfig(environ, tinyb)
  /\ tinybird' = IF loaded'.ok THEN [host |-> loaded'.host, token |-> loaded'.token]
                 ELSE tinybird
  /\ UNCHANGED <<servicevars, environ, tinyb, run, status>>

ConfigNext == ImportConfig

ConfigSpec == ConfigInit /\ [][ConfigNext]_vars

-----------------------------------------------------------------------------
(* The eval runner (evals.run_all_evals, routes.run_evals) *)

\* The tests run_all_evals lists, in its order.
AllTests ==
  <<"grammar_compliance_1_simple_select",
    "grammar_compliance_2_select_with_where",
    "grammar_compliance_3_select_with_group_by",
    "grammar_compliance_4_select_with_order_by_limit",
    "grammar_compliance_5_complex_multi_clause",
    "query_execution_1_basic_count",
    "query_execution_2_aggregation",
    "query_execution_3_filtered_query",
    "query_execution_4_grouped_query",
    "query_execution_5_complex_query",
    "semantic_accuracy_1_correct_columns",
    "semantic_accuracy_2_correct_filtering",
    "semantic_accuracy_3_correct_aggregation",
    "semantic_accuracy_4_correct_grouping",
    "semantic_accuracy_5_correct_ordering",
    "advanced_features_1_string_functions",
    "advanced_features_2_arithmetic_operations",
    "advanced_features_3_having_clause",
    "advanced_features_4_case_expressions",
    "advanced_features_5_advanced_aggregates",
    "production_features_1_ctes",
    "production_features_2_window_functions",
    "production_features_3_self_join",
    "production_features_4_dynamic_functions">>

\* How many of them, from the first on, a run of the model goes through.
NumTests == 6

Registry == SubSeq(AllTests, 1, NumTests)

\* What a call of a test can do: return True, return False, or raise.
TestOutcomes == {"True", "False", "raised"}

\* passed = sum(1 for _, result in all_results if result)
PassedCount(results) == Cardinality({i \in 1..Len(results) : results[i].result})

\* GET /run-evals is received and run_all_evals is called.
RunEvalsCalled ==
  /\ run.pc \in {"idle", "returned", "raised"}
  /\ run' = [NoRun EXCEPT !.pc = "running"]
  /\ status' = "<none>"
  /\ UNCHANGED <<servicevars, tinybird, environ, tinyb, loaded>>

\* A variant that ends the run at the first test that does not pass.
RunNextTestStoppingAtFailure ==
  /\ run.pc = "running"
  /\ Len(run.outcomes) < Len(Registry)
  /\ \E o \in TestOutcomes :
       LET name == Registry[Len(run.outcomes) + 1]
       IN /\ run' = [run EXCEPT
                 !.outcomes = Append(@, o),
                 !.all_results = Append(@, [name |-> name, result |-> (o = "True")]),
                 !.pc = IF o = "True" THEN "running" ELSE "returned"]
          /\ status' = IF o = "True" THEN status ELSE "partial"
  /\ UNCHANGED <<servicevars, tinybird, environ, tinyb, loaded>>

\* The loop calls the next test: its result is recorded, and False is
\* recorded when it raises.
RunNextTest ==
  /\ run.pc = "running"
  /\ Len(run.outcomes) < Len(Registry)
  /\ \E o \in TestOutcomes :
       LET name == Registry[Len(run.outcomes) + 1]
       IN run' = [run EXCEPT
            !.outcomes = Append(@, o),
            !.all_results = Append(@, [name |-> name, result |-> (o = "True")])]
  /\ UNCHANGED <<servicevars, tinybird, environ, tinyb, loaded, status>>

\* The loop is over: run_all_evals returns passed == total and the route
\* answers "success" or "partial".
RunReturns ==
  /\ run.pc = "running"
  /\ Len(run.outcomes) = Len(Registry)
  /\ LET all_passed == PassedCount(run.all_results) = Len(run.all_results)
     IN /\ run' = [run EXCEPT !.pc = "returned", !.returned = all_passed]
        /\ status' = IF all_passed THEN "success" ELSE "partial"
  /\ UNCHANGED <<servicevars, tinybird, environ, tinyb, loaded>>

\* A print of run_all_evals outside its try raises: the run raises and the
\* route's except clause answers "error".
RunRaises ==
  /\ run.pc = "running"
  /\ run' = [run EXCEPT !.pc = "raised"]
  /\ status' = "error"
  /\ UNCHANGED <<servicevars, tinybird, environ, tinyb, loaded>>

RunInit ==
  /\ PipeInit
  /\ tinybird = TinybirdConfig
  /\ AuxInit

RunNext ==
  \/ RunEvalsCalled
  \/ RunNextTest
  \/ RunReturns
  \/ RunRaises

RunSpec == RunInit /\ [][RunNext]_vars

-----------------------------------------------------------------------------
(* Progress of a request *)

\* The route's own steps follow one another without waiting, and the
\* generation client gives up a call after its timeout; requests.post is
\* called without a timeout, so nothing makes the execution call return.
LiveSpec ==
  /\ Spec
  /\ WF_vars(CallGenerationBackend)
  /\ WF_vars(GrammarLoadFails)
  /\ WF_vars(GenerationReturns)
  /\ WF_vars(PostQuery)

-----------------------------------------------------------------------------
(* Helpers of the properties *)

IsSuccess(resp) ==
  DOMAIN resp = {"natural_language_query", "generated_sql", "results"}

IsError(resp) == DOMAIN resp = {"error", "natural_language_query"}

\* The execution backend answered (the call did not raise).
ExecAnswered == pc = "done" /\ execCalls = 1 /\ ~exec_resp.raised

\* The candidate the generator extracted from the backend's response.
Candidate ==
  IF mode = "constrained" THEN FirstToolInput(gen_resp.output)
  ELSE gen_resp.content

\* The generation backend answered (the call did not raise).
GenAnswered == pc \in {"generated", "exec_wait", "done"} /\ ~gen_resp.raised

\* How many directives a text holds, in either case.
DirectiveCount(s) == Cardinality({i \in 1..Len(s) : UpperTok(s[i]) = DIRECTIVE})

\* The normalization step of the generators.
Normalize(x) == EnsureFormatJson(Strip(x))

-----------------------------------------------------------------------------
(* Properties *)

\* C1: a query is posted to the execution backend only if the grammar
\* accepts the candidate the generator returned.
C1_PostedOnlyIfGrammarAccepts ==
  posted # None => GrammarAccepts(sql_query)

\* C2: no query that begins with anything but SELECT or WITH is posted to
\* the execution backend.
C2_PostedOnlyIfReadOnly ==
  posted # None => ReadOnlyLead(posted)

\* C3: the text the generator returns ends with the output-format directive
\* and holds it exactly once.
C3_EndsWithExactlyOneDirective ==
  sql_query # None =>
    /\ sql_query # <<>>
    /\ UpperTok(sql_query[Len(sql_query)]) = DIRECTIVE
    /\ DirectiveCount(sql_query) = 1

\* C4: normalizing a normalized text returns it unchanged.
C4_NormalizeIdempotent ==
  sql_query # None => Normalize(sql_query) = sql_query

\* C5: when the execution backend answers with an error status, the caller
\* gets no result, and an error that carries the status and the body's text.
C5_BackendErrorCarriesStatusAndBody ==
  (ExecAnswered /\ exec_resp.status \notin 200..299) =>
    /\ IsError(response)
    /\ Len(response.error) = 4
    /\ response.error[2] = StatusText(exec_resp.status)
    /\ response.error[4] = exec_resp.body.text

C5_Witness ==
  /\ ExecAnswered
  /\ exec_resp.status = 500
  /\ exec_resp.body.text = "not json"
  /\ IsError(response)

\* C6, as claimed: a response is a failure exactly when its status is not
\* 2xx (for a body that is JSON).
C6_FailureIffNot2xx ==
  (ExecAnswered /\ exec_resp.body.json) =>
    (IsError(response) <=> exec_resp.status \notin 200..299)

\* C6, amended: a response is a failure exactly when its status is not 200
\* (status 200 is a success when its body is JSON); every non-2xx status is
\* a failure.
C6_FailureIffNot200 ==
  ExecAnswered =>
    /\ IsError(response) <=> (exec_resp.status # 200 \/ ~exec_resp.body.json)
    /\ IsSuccess(response) <=> (exec_resp.status = 200 /\ exec_resp.body.json)
    /\ exec_resp.status \notin 200..299 => IsError(response)

C6_Witness ==
  /\ ExecAnswered
  /\ exec_resp.status = 204
  /\ exec_resp.body.json
  /\ IsError(response)

\* C7: a success status with a body that lacks the row data or the row
\* count ends in a failure.
C7_MissingFieldsIsFailure ==
  (/\ ExecAnswered
   /\ exec_resp.status = 200
   /\ exec_resp.body.json
   /\ ~({"data", "rows"} \subseteq exec_resp.body.keys)) => IsError(response)

\* C8: when the backend's response holds no candidate, or an empty or
\* whitespace-only one, generation fails and returns no query.
C8_NoCandidateIsFailure ==
  (GenAnswered /\ (Candidate = None \/ Strip(Candidate) = <<>>)) =>
    /\ sql_query = None
    /\ IsError(response)

\* C9: a request makes at most one call to the generation backend and at
\* most one to the execution backend.
C9_AtMostOneCallEach == genCalls <= 1 /\ execCalls <= 1

C9_Witness ==
  /\ pc = "done"
  /\ genCalls = 1
  /\ execCalls = 1
  /\ exec_resp.raised
  /\ IsError(response)

\* C10: a request ends in exactly one outcome: a success that holds the
\* generated query and the backend's answer to the call made for it, and is
\* given only when that call succeeded; or an error without results.
C10_OneTerminalOutcome ==
  /\ pc # "done" => response = NoResponse
  /\ pc = "done" =>
       \/ /\ IsSuccess(response)
          /\ sql_query # None
          /\ response.generated_sql = sql_query
          /\ response.natural_language_query = nl
          /\ execCalls = 1
          /\ posted = ExecuteNormalize(sql_query)
          /\ ~exec_resp.raised
          /\ exec_resp.status = HTTP_OK
          /\ exec_resp.body.json
          /\ response.results = ParseJson(exec_resp.body)
       \/ /\ IsError(response)
          /\ response.natural_language_query = nl
          /\ \/ genCalls <= 1 /\ execCalls = 0 /\ sql_query = None
             \/ /\ execCalls = 1
                /\ \/ exec_resp.raised
                   \/ exec_resp.status # HTTP_OK
                   \/ ~exec_resp.body.json

C10_Witness ==
  /\ pc = "done"
  /\ IsSuccess(response)
  /\ response.results = [keys |-> {"data", "rows"}]

Validated == verdict # NoVerdict

Rejected == Validated /\ ~verdict.valid

\* C12: when the grammar source is missing or is not a well-formed grammar,
\* no generation request is accepted and no generation backend call is
\* issued: every call that was issued carried a well-formed grammar.
C12_NoCallWhileGrammarMalformed ==
  genCalls >= 1 => WellFormed(definition)

\* C13: when the grammar file is replaced while requests are in flight, every
\* load_grammar call returns the complete old or the complete new grammar
\* text, never a mixture or a prefix, under every interleaving of the
\* writer's steps with the read.
C13_LoadReturnsWholeGrammar ==
  /\ definition # None => definition \in GrammarTexts
  /\ vgrammar # None => vgrammar \in GrammarTexts

\* C14: validate_sql_with_grammar reports accepted for a string if and only
\* if the string is derivable from the root of the grammar it loaded.
C14_AcceptedIffDerivable ==
  Validated => (verdict.valid <=> Derivable(vgrammar, sql_query))

C14_Witness ==
  /\ pc = "t_valid"
  /\ verdict.valid
  /\ vgrammar = GrammarNew
  /\ sql_query[1] = "WITH"

OriginalDetail ==
  IF genCalls = 0 THEN FileNotFoundError
  ELSE IF ~Generate(mode, gen_resp).ok THEN Tail(Generate(mode, gen_resp).error)
  ELSE ExecuteResult(exec_resp).error

\* C17: for every failed request the caller receives the failure's kind and
\* its detail unchanged: the detail is not altered or wrapped on the way.
C17_DetailUnchanged ==
  (pc = "done" /\ IsError(response)) => response.error = OriginalDetail

\* C18: execute_query posts one request per call and the 'q' field of its
\* body equals, character for character, the query text it was given, for
\* every query the generator returns.
C18_PostedIsTheQueryGiven ==
  /\ execCalls <= 1
  /\ posted # None => posted = sql_query

\* C19: every request eventually reaches a terminal state: a backend call
\* that never answers ends by its own timeout, and the request does not stay
\* in generation or execution forever.
C19_EveryRequestTerminates == (pc = "generating") ~> (pc = "done")

\* A text holds no fence marker.
NoFence(s) == \A i \in 1..Len(s) : s[i] # FENCE

\* The chat call answered with the query `inner` wrapped in fence markers.
FencedAnswered == GenAnswered /\ gen_resp.content \in FencedTexts(inner)

Outcome(q, d, g, x) ==
  IF d = None THEN RouteError(q, WrapGenerationError(FileNotFoundError))
  ELSE IF ~GenerateConstrained(g).ok THEN RouteError(q, GenerateConstrained(g).error)
  ELSE IF ~ExecuteResult(x).ok THEN RouteError(q, ExecuteResult(x).error)
  ELSE RouteSuccess(q, GenerateConstrained(g).value, ExecuteResult(x).value)

\* C21: processing a request changes no state shared between requests: the
\* schema description and the backend configuration are unchanged by every
\* step, and the outcome of a request (and what it sends to the backends)
\* depends only on its own question, the grammar it read and the backend
\* responses it received, under every interleaving with other requests.
C21_NoSharedStateChanged ==
  /\ schema_info = SCHEMA_INFO
  /\ tinybird = TinybirdConfig
  /\ \A r \in Requests :
       LET q == reqs[r]
       IN /\ q.pc \notin {"idle", "generating"} => q.prompt = Prompt(SCHEMA_INFO, q.nl)
          /\ q.posted # None =>
               /\ q.url = Url(TinybirdConfig.host)
               /\ q.auth = Authorization(TinybirdConfig.token)
               /\ q.posted = ExecuteNormalize(GenerateConstrained(q.gen_resp).value)
          /\ q.pc = "done" =>
               q.response = Outcome(q.nl, q.definition, q.gen_resp, q.exec_resp)

C21_Witness ==
  /\ reqs["a"].pc = "done"
  /\ IsSuccess(reqs["a"].response)
  /\ reqs["b"].pc = "exec_wait"
  /\ reqs["b"].nl # reqs["a"].nl
  /\ reqs["b"].definition # reqs["a"].definition

\* C22: for one candidate, the grammar text handed to the generation backend
\* as the output constraint is the grammar text the validator parses the
\* candidate against, also when the grammar file is changed (from one
\* complete grammar to another) between the generation call and the
\* validation call.
C22_SameGrammarForBoth ==
  (Validated /\ WellFormed(definition) /\ WellFormed(vgrammar)) =>
    vgrammar = definition

\* load_tinybird_config() has been called.
Loaded == loaded # NotLoaded

\* The file could be read as a JSON object, or is not there.
FileUsable == tinyb.kind \in {"absent", "object"}

\* C23 (as claimed): environment variables take precedence field by field: a
\* host or token set in the environment is returned as is, the file is not
\* read when both are set in the environment, and a missing host or token
\* raises the configuration-not-found error.
C23_SetInEnvironmentWins ==
  Loaded =>
    /\ (loaded.ok /\ environ.host # NoValue) => loaded.host = environ.host
    /\ (loaded.ok /\ environ.token # NoValue) => loaded.token = environ.token
    /\ (environ.host # NoValue /\ environ.token # NoValue) => ~loaded.opened

\* C23 (amended): the same with "set" read as "set to a non-empty value": a
\* non-empty host or token of the environment is returned as is, an unset
\* or empty one is taken from the .tinyb file, the file is opened exactly
\* when one of the two is unset or empty, and when host or token is still
\* missing or empty afterwards (the file absent included) the
\* configuration-not-found error is raised and no partial pair is returned;
\* a .tinyb that is no JSON object raises the error of reading it.
C23_NonEmptyEnvironmentWins ==
  Loaded =>
    /\ (loaded.ok /\ ~Falsy(environ.host)) => loaded.host = environ.host
    /\ (loaded.ok /\ ~Falsy(environ.token)) => loaded.token = environ.token
    /\ (loaded.ok /\ Falsy(environ.host)) => loaded.host = tinyb.host
    /\ (loaded.ok /\ Falsy(environ.token)) => loaded.token = tinyb.token
    /\ loaded.opened <=> (Falsy(environ.host) \/ Falsy(environ.token))
    /\ loaded.ok => ~Falsy(loaded.host) /\ ~Falsy(loaded.token)
    /\ (FileUsable \/ ~loaded.opened) =>
         (loaded.ok <=> /\ ~Falsy(PyOr(environ.host, tinyb.host))
                        /\ ~Falsy(PyOr(environ.token, tinyb.token)))
    /\ (FileUsable /\ ~loaded.ok) => loaded.error = ConfigNotFound
    /\ (loaded.opened /\ ~FileUsable) =>
         ~loaded.ok /\ loaded.error \in {JsonLoadError, AttributeError}
    /\ tinybird = IF loaded.ok THEN [host |-> loaded.host, token |-> loaded.token]
                  ELSE Unassigned

C23_Witness ==
  /\ Loaded
  /\ loaded.ok
  /\ environ.host = ""
  /\ ~Falsy(environ.token)
  /\ loaded.host = tinyb.host
  /\ loaded.token = environ.token

\* C24: run_all_evals runs every registered test exactly once in its listed
\* order whatever the outcome of earlier tests (a test that fails or raises
\* is recorded as failed and the run continues), and returns true if and
\* only if every test returned true; GET /run-evals then reports "success"
\* exactly when all passed, "partial" when at least one failed, and "error"
\* only when the run itself raised.
C24_RunsAllReportsAll ==
  /\ Len(run.all_results) = Len(run.outcomes)
  /\ Len(run.all_results) <= Len(Registry)
  /\ \A i \in 1..Len(run.all_results) :
       /\ run.all_results[i].name = Registry[i]
       /\ run.all_results[i].result <=> (run.outcomes[i] = "True")
  /\ run.pc = "returned" =>
       /\ Len(run.all_results) = Len(Registry)
       /\ run.returned <=> (\A i \in 1..Len(Registry) : run.outcomes[i] = "True")
  /\ status = "success" <=> (run.pc = "returned" /\ run.returned)
  /\ status = "partial" <=> (run.pc = "returned" /\ ~run.returned)
  /\ status = "error" <=> run.pc = "raised"

C24_Witness ==
  /\ run.pc = "returned"
  /\ status = "partial"
  /\ run.outcomes[1] = "raised"
  /\ run.outcomes[2] = "False"
  /\ run.outcomes[Len(Registry)] = "True"

=============================================================================
